---- MODULE Spec2Model ----
(***************************************************************************)
(* KWIC index (src/m2/main.go): line storage, input, circular shifter,     *)
(* alphabetizer, output and master control, as one state machine.          *)
(*                                                                         *)
(* Three specifications share the variables:                               *)
(*   Spec      - main(): input -> newCircularShifter -> newAlphabetizer -> *)
(*               output, the sort unrolled one loop iteration at a time;   *)
(*   SpecStore - a caller of lineStorage.setWord with arbitrary arguments; *)
(*   SpecRank  - normalizeChar applied to every pair of bytes.             *)
(* Go slices are 0-based; sequences here are 1-based, so slice index k is  *)
(* sequence index k+1.  The 1-based (line, word, char) addresses of the    *)
(* lineHolder interface are kept as they are.                              *)
(***************************************************************************)
EXTENDS Integers, Sequences, FiniteSets, TLC

\* ---- bounds ----
MaxInput == 7        \* bytes read by input() before end-of-file
MaxStore == 3        \* characters stored by the setWord caller of SpecStore

\* ---- program constants ----
ByteRange == 256     \* Go's byte is 8 bits wide
Space == 32          \* ' '
Newline == 10        \* '\n'
UpperA == 65         \* 'A'
UpperZ == 90         \* 'Z'
LowerA == 97         \* 'a'
LowerZ == 122        \* 'z'

\* bytes the modelled file may hold: the separators, and 'B' and 'a', which
\* the ranks order the other way round than their byte values do
InputBytes == {Space, Newline, 66, LowerA}
\* bytes and addresses the setWord caller passes
StoreBytes == {UpperA, 98}
ArgRange == (0 - 1) .. (MaxStore + 2)

ERLSBL == "Line not last or just past last (ERLSBL)"
ERLSBW == "Word not last or just past last (ERLSBW)"
ERLSBC == "Char not just past last (ERLSBC)"
IndexPanic == "runtime error: index out of range"
NoPanic == "none"

VARIABLES
  pc,        \* position in main() / which driver is running
  array,     \* lineStorage.array
  panic,     \* the panic raised by the last setWord call, or NoPanic
  req,       \* arguments of the last setWord call
  nread,     \* bytes read so far by input()
  in_line, in_word, in_char,   \* input()'s locals line, word, char
  shifts,    \* circularShifter.shifts
  perm,      \* newAlphabetizer's perm
  stack,     \* pending quickSort(left, right) calls, next call first
  frame,     \* left, right, pivot, i of the quickSort call in its loop
  qs,        \* "idle": no quickSort call is in its loop; "loop": one is
  lastOp,    \* what the last loop iteration did to perm
  out,       \* bytes written by output()
  c1, c2,    \* SpecRank: the bytes given to normalizeChar
  r1, r2     \* SpecRank: the ranks it returned

vars == <<pc, array, panic, req, nread, in_line, in_word, in_char, shifts,
          perm, stack, frame, qs, lastOp, out, c1, c2, r1, r2>>

storeVars == <<array, panic, req>>
inputVars == <<nread, in_line, in_word, in_char>>
sortVars == <<perm, stack, frame, qs, lastOp>>
rankVars == <<c1, c2, r1, r2>>

NoFrame == [left |-> 0, right |-> 0, pivot |-> 0, i |-> 0]
NoReq == [line |-> 0, word |-> 0, char |-> 0, value |-> 0]

\* ---- Module 1: Line Storage ----
storage_lines(arr) == Len(arr)
storage_words(arr, line) == Len(arr[line])
storage_chars(arr, line, word) == Len(arr[line][word])
storage_char(arr, line, word, char) == arr[line][word][char]

\* the check of line 46 with its lower bound taken against 1
LineOutOfSequenceLow(line, lines) == line < 1 \/ line > lines + 1

LineOutOfSequence(line, lines) == line < lines \/ line > lines + 1
WordOutOfSequence(word, words) == word < words \/ word > words + 1
CharOutOfSequence(char, chars) == char # chars + 1

Fail(arr, msg) == [array |-> arr, panic |-> msg]

\* setWord: the store it leaves and the panic it raises.  An index of -1
\* (line 0 at line 51, word 0 at lines 58 and 69) is Go's run-time panic.
setWord(arr, line, word, char, value) ==
  LET lines == storage_lines(arr) IN
  IF LineOutOfSequence(line, lines) THEN Fail(arr, ERLSBL)
  ELSE IF line = lines /\ line < 1 THEN Fail(arr, IndexPanic)
  ELSE
    LET words == IF line = lines THEN storage_words(arr, line) ELSE 0 IN
    IF WordOutOfSequence(word, words) THEN Fail(arr, ERLSBW)
    ELSE IF line = lines /\ word = words /\ word < 1 THEN Fail(arr, IndexPanic)
    ELSE
      LET chars == IF line = lines /\ word = words
                   THEN storage_chars(arr, line, word) ELSE 0 IN
      IF CharOutOfSequence(char, chars) THEN Fail(arr, ERLSBC)
      ELSE
        LET a1 == IF line = lines + 1 THEN Append(arr, <<>>) ELSE arr
            a2 == IF word = words + 1
                  THEN [a1 EXCEPT ![line] = Append(@, <<>>)] ELSE a1
        IN IF word < 1 THEN Fail(a2, IndexPanic)
           ELSE [array |-> [a2 EXCEPT ![line][word] = Append(@, value)],
                 panic |-> NoPanic]

\* ---- Module 3: Circular Shifter ----
RECURSIVE ShiftsOfLine(_, _, _)
\* inner loop of newCircularShifter, from word on
ShiftsOfLine(arr, line, word) ==
  IF word <= storage_words(arr, line)
  THEN <<[line |-> line, startWord |-> word]>> \o ShiftsOfLine(arr, line, word + 1)
  ELSE <<>>

RECURSIVE ShiftsFrom(_, _)
\* outer loop of newCircularShifter, from line on
ShiftsFrom(arr, line) ==
  IF line <= storage_lines(arr)
  THEN ShiftsOfLine(arr, line, 1) \o ShiftsFrom(arr, line + 1)
  ELSE <<>>

\* the outer loop started one line late
newCircularShifterLate(arr) == ShiftsFrom(arr, 2)

newCircularShifter(arr) == ShiftsFrom(arr, 1)

\* the wrap going back to the first word instead of subtracting
ShiftWordReset(word, startWord, words) ==
  LET w == word + startWord IN IF w > words THEN 1 ELSE w

\* the address translation of circularShifter.char and .chars
ShiftWord(word, startWord, words) ==
  LET w == word + startWord IN IF w > words THEN w - words ELSE w

shifter_lines(sh) == Len(sh)
shifter_words(arr, sh, line) == storage_words(arr, sh[line].line)
shifter_chars(arr, sh, line, word) ==
  storage_chars(arr, sh[line].line,
                ShiftWord(word, sh[line].startWord, storage_words(arr, sh[line].line)))
shifter_char(arr, sh, line, word, char) ==
  storage_char(arr, sh[line].line,
               ShiftWord(word, sh[line].startWord, storage_words(arr, sh[line].line)),
               char)

\* ---- lineHolder: the interface, by the holders main() builds ----
\* "storage" is the lineStorage, "shifter" wraps it, "alphabetizer" wraps
\* the shifter (main, lines 290-296).
holder_lines(h) ==
  IF h = "storage" THEN storage_lines(array) ELSE shifter_lines(shifts)
holder_words(h, line) ==
  IF h = "storage" THEN storage_words(array, line)
  ELSE IF h = "shifter" THEN shifter_words(array, shifts, line)
  ELSE shifter_words(array, shifts, perm[line])
holder_chars(h, line, word) ==
  IF h = "storage" THEN storage_chars(array, line, word)
  ELSE IF h = "shifter" THEN shifter_chars(array, shifts, line, word)
  ELSE shifter_chars(array, shifts, perm[line], word)
holder_char(h, line, word, char) ==
  IF h = "storage" THEN storage_char(array, line, word, char)
  ELSE IF h = "shifter" THEN shifter_char(array, shifts, line, word, char)
  ELSE shifter_char(array, shifts, perm[line], word, char)

\* ---- Module 4: Alphabetizer ----
Byte(x) == x % ByteRange

\* the lower-case branch without its + 1
normalizeCharNoOdd(char) ==
  IF char >= UpperA /\ char <= UpperZ THEN Byte(Byte(char - UpperA) * 2)
  ELSE IF char >= LowerA /\ char <= LowerZ THEN Byte(Byte(char - LowerA) * 2)
  ELSE 0

normalizeChar(char) ==
  IF char >= UpperA /\ char <= UpperZ THEN Byte(Byte(char - UpperA) * 2)
  ELSE IF char >= LowerA /\ char <= LowerZ THEN Byte(Byte(Byte(char - LowerA) * 2) + 1)
  ELSE 0

\* the first test without its second half
ShorterIsLessAlways(k, n1, n2) == k > n1

\* the first test of both comparison loops (lines 227 and 249): the first
\* operand has run out and the second has not
ShorterIsLess(k, n1, n2) == k > n1 /\ k <= n2

RECURSIVE WordsLessFrom(_, _, _, _, _, _)
\* the loop of wordsLess, from char on
WordsLessFrom(h, line1, word1, line2, word2, char) ==
  LET chars1 == holder_chars(h, line1, word1)
      chars2 == holder_chars(h, line2, word2)
  IN IF ShorterIsLess(char, chars1, chars2) THEN TRUE
     ELSE IF char > chars2 THEN FALSE
     ELSE LET n1 == normalizeChar(holder_char(h, line1, word1, char))
              n2 == normalizeChar(holder_char(h, line2, word2, char))
          IN IF n1 < n2 THEN TRUE
             ELSE IF n1 > n2 THEN FALSE
             ELSE WordsLessFrom(h, line1, word1, line2, word2, char + 1)

wordsLess(h, line1, word1, line2, word2) ==
  WordsLessFrom(h, line1, word1, line2, word2, 1)

RECURSIVE LinesLessFrom(_, _, _, _)
\* the loop of linesLess, from word on
LinesLessFrom(h, line1, line2, word) ==
  LET words1 == holder_words(h, line1)
      words2 == holder_words(h, line2)
  IN IF ShorterIsLess(word, words1, words2) THEN TRUE
     ELSE IF word > words2 THEN FALSE
     ELSE IF wordsLess(h, line1, word, line2, word) THEN TRUE
     ELSE IF wordsLess(h, line2, word, line1, word) THEN FALSE
     ELSE LinesLessFrom(h, line1, line2, word + 1)

linesLess(h, line1, line2) == LinesLessFrom(h, line1, line2, 1)

\* perm := [1, 2, ..., n]
IdentityPerm(n) == [k \in 1..n |-> k]

\* perm[pivot], perm[i] = perm[i], perm[pivot]   (0-based pivot, i)
Swap2(p, pivot, i) ==
  [p EXCEPT ![pivot + 1] = p[i + 1], ![i + 1] = p[pivot + 1]]

\* the rotation done as a swap of perm[pivot] and perm[i]
Rotate3AsSwap(p, pivot, i) == Swap2(p, pivot, i)

\* the rotation done as three assignments one after the other
Rotate3InTurn(p, pivot, i) ==
  [p EXCEPT ![pivot + 1] = p[i + 1], ![pivot + 2] = p[i + 1]]

\* perm[pivot], perm[pivot+1], perm[i] = perm[i], perm[pivot], perm[pivot+1]
Rotate3(p, pivot, i) ==
  [p EXCEPT ![pivot + 1] = p[i + 1], ![pivot + 2] = p[pivot + 1],
            ![i + 1] = p[pivot + 2]]

\* ---- Module 5: Output ----
RECURSIVE OutputWords(_, _, _)
OutputWords(h, line, word) ==
  IF word <= holder_words(h, line)
  THEN [c \in 1..holder_chars(h, line, word) |-> holder_char(h, line, word, c)]
       \o (IF word < holder_words(h, line) THEN <<Space>> ELSE <<>>)
       \o OutputWords(h, line, word + 1)
  ELSE <<>>

RECURSIVE OutputLines(_, _)
OutputLines(h, line) ==
  IF line <= holder_lines(h)
  THEN OutputWords(h, line, 1) \o <<Newline>> \o OutputLines(h, line + 1)
  ELSE <<>>

output(h) == OutputLines(h, 1)

\* ---- initial states ----
InitCommon ==
  /\ array = <<>>
  /\ panic = NoPanic
  /\ req = NoReq
  /\ nread = 0
  /\ in_line = 1 /\ in_word = 1 /\ in_char = 1
  /\ shifts = <<>>
  /\ perm = <<>>
  /\ stack = <<>>
  /\ frame = NoFrame
  /\ qs = "idle"
  /\ lastOp = "none"
  /\ out = <<>>

Init ==
  /\ pc = "input"
  /\ InitCommon
  /\ c1 = 0 /\ c2 = 0 /\ r1 = 0 /\ r2 = 0

\* ---- Module 2: Input ----
\* one iteration of input()'s loop that reads byte b (a read of no byte,
\* n == 0, changes nothing and is a stuttering step)
InputRead(b) ==
  /\ pc = "input"
  /\ nread < MaxInput
  /\ nread' = nread + 1
  /\ IF b = Space
     THEN /\ in_word' = in_word + 1
          /\ in_char' = 1
          /\ UNCHANGED <<pc, in_line, storeVars>>
     ELSE IF b = Newline
     THEN /\ in_line' = in_line + 1
          /\ in_word' = 1
          /\ in_char' = 1
          /\ UNCHANGED <<pc, storeVars>>
     ELSE LET r == setWord(array, in_line, in_word, in_char, b) IN
          /\ array' = r.array
          /\ panic' = r.panic
          /\ req' = [line |-> in_line, word |-> in_word, char |-> in_char,
                     value |-> b]
          /\ IF r.panic = NoPanic
             THEN /\ in_char' = in_char + 1
                  /\ pc' = pc
             ELSE /\ in_char' = in_char
                  /\ pc' = "aborted"
          /\ UNCHANGED <<in_line, in_word>>
  /\ UNCHANGED <<shifts, sortVars, out, rankVars>>

\* file.Read returns io.EOF: input returns nil and main goes on
InputEOF ==
  /\ pc = "input"
  /\ pc' = "shifter"
  /\ UNCHANGED <<storeVars, inputVars, shifts, sortVars, out, rankVars>>

\* os.Open or file.Read fails: input returns the error, main log.Fatalf's
InputError ==
  /\ pc = "input"
  /\ pc' = "ioerror"
  /\ UNCHANGED <<storeVars, inputVars, shifts, sortVars, out, rankVars>>

\* ---- Module 6: Master Control, after input ----
\* shifted := newCircularShifter(storage)
Shift ==
  /\ pc = "shifter"
  /\ shifts' = newCircularShifter(array)
  /\ pc' = "alphabetizer"
  /\ UNCHANGED <<storeVars, inputVars, sortVars, out, rankVars>>

\* newAlphabetizer up to the call quickSort(0, len(perm))
SortBegin ==
  /\ pc = "alphabetizer"
  /\ perm' = IdentityPerm(shifter_lines(shifts))
  /\ stack' = <<[left |-> 0, right |-> shifter_lines(shifts)]>>
  /\ qs' = "idle"
  /\ pc' = "sorting"
  /\ UNCHANGED <<storeVars, inputVars, shifts, frame, lastOp, out, rankVars>>

\* quickSort(left, right) is entered: it returns at once, or starts its loop
QsCall ==
  /\ pc = "sorting" /\ qs = "idle" /\ stack # <<>>
  /\ LET call == Head(stack) IN
     IF call.right - call.left <= 1
     THEN /\ stack' = Tail(stack)
          /\ UNCHANGED <<frame, qs>>
     ELSE /\ stack' = Tail(stack)
          /\ frame' = [left |-> call.left, right |-> call.right,
                       pivot |-> call.left, i |-> call.left + 1]
          /\ qs' = "loop"
  /\ UNCHANGED <<pc, storeVars, inputVars, shifts, perm, lastOp, out, rankVars>>

\* one iteration of the partition loop
QsLoop ==
  /\ pc = "sorting" /\ qs = "loop" /\ frame.i < frame.right
  /\ IF linesLess("shifter", perm[frame.i + 1], perm[frame.pivot + 1])
     THEN /\ IF frame.i = frame.pivot + 1
             THEN /\ perm' = Swap2(perm, frame.pivot, frame.i)
                  /\ lastOp' = "swap"
             ELSE /\ perm' = Rotate3(perm, frame.pivot, frame.i)
                  /\ lastOp' = "rotate"
          /\ frame' = [frame EXCEPT !.pivot = @ + 1, !.i = @ + 1]
     ELSE /\ perm' = perm
          /\ lastOp' = "keep"
          /\ frame' = [frame EXCEPT !.i = @ + 1]
  /\ UNCHANGED <<pc, storeVars, inputVars, shifts, stack, qs, out, rankVars>>

\* the loop ends: quickSort(left, pivot), then quickSort(pivot+1, right)
QsRecurse ==
  /\ pc = "sorting" /\ qs = "loop" /\ frame.i >= frame.right
  /\ stack' = <<[left |-> frame.left, right |-> frame.pivot],
                [left |-> frame.pivot + 1, right |-> frame.right]>> \o stack
  /\ qs' = "idle"
  /\ UNCHANGED <<pc, storeVars, inputVars, shifts, perm, frame, lastOp, out, rankVars>>

\* quickSort(0, len(perm)) has returned: newAlphabetizer returns
SortEnd ==
  /\ pc = "sorting" /\ qs = "idle" /\ stack = <<>>
  /\ pc' = "output"
  /\ UNCHANGED <<storeVars, inputVars, shifts, sortVars, out, rankVars>>

\* output(os.Stdout, alphabetized)
Output ==
  /\ pc = "output"
  /\ out' = output("alphabetizer")
  /\ pc' = "done"
  /\ UNCHANGED <<storeVars, inputVars, shifts, sortVars, rankVars>>

Next ==
  \/ \E b \in InputBytes : InputRead(b)
  \/ InputEOF
  \/ InputError
  \/ Shift
  \/ SortBegin
  \/ QsCall
  \/ QsLoop
  \/ QsRecurse
  \/ SortEnd
  \/ Output

Spec == Init /\ [][Next]_vars

\* ---- SpecStore: a caller of setWord ----
RECURSIVE SumLen(_)
SumLen(seq) == IF seq = <<>> THEN 0 ELSE Len(Head(seq)) + SumLen(Tail(seq))

RECURSIVE StoreSize(_)
\* number of characters in the store
StoreSize(arr) == IF arr = <<>> THEN 0 ELSE SumLen(Head(arr)) + StoreSize(Tail(arr))

InitStore ==
  /\ pc = "store"
  /\ InitCommon
  /\ c1 = 0 /\ c2 = 0 /\ r1 = 0 /\ r2 = 0

\* storage.setWord(line, word, char, value); a panic ends the program
SetWordCall(line, word, char, value) ==
  /\ pc = "store"
  /\ panic = NoPanic
  /\ StoreSize(array) < MaxStore
  /\ LET r == setWord(array, line, word, char, value) IN
     /\ array' = r.array
     /\ panic' = r.panic
  /\ req' = [line |-> line, word |-> word, char |-> char, value |-> value]
  /\ UNCHANGED <<pc, inputVars, shifts, sortVars, out, rankVars>>

NextStore ==
  \E line \in ArgRange, word \in ArgRange, char \in ArgRange, value \in StoreBytes :
    SetWordCall(line, word, char, value)

SpecStore == InitStore /\ [][NextStore]_vars

\* ---- SpecRank: normalizeChar on every pair of bytes ----
InitRank ==
  /\ pc = "rank"
  /\ InitCommon
  /\ c1 \in 0..(ByteRange - 1)
  /\ c2 \in 0..(ByteRange - 1)
  /\ r1 = 0 /\ r2 = 0

Normalize ==
  /\ pc = "rank"
  /\ r1' = normalizeChar(c1)
  /\ r2' = normalizeChar(c2)
  /\ pc' = "ranked"
  /\ UNCHANGED <<storeVars, inputVars, shifts, sortVars, out, c1, c2>>

NextRank == Normalize

SpecRank == InitRank /\ [][NextRank]_vars

\* ---- properties ----
N == shifter_lines(shifts)
Sorted == pc \in {"output", "done"}
\* newCircularShifter has just returned; array and shifts stay as they are
Shifted == pc = "alphabetizer"

\* the characters of a word, read through the holder
WordOf(h, line, word) ==
  [c \in 1..holder_chars(h, line, word) |-> holder_char(h, line, word, c)]

\* C1: when newAlphabetizer has returned, no output line is less than the
\* line before it; and while a partition loop runs, every element left of
\* the pivot is less than the pivot element and every element between the
\* pivot and the scan index is not less than it.
C1_SortedOutput ==
  /\ (pc = "sorting" /\ qs = "loop") =>
       /\ \A j \in frame.left .. frame.pivot - 1 :
            linesLess("shifter", perm[j + 1], perm[frame.pivot + 1])
       /\ \A j \in frame.pivot + 1 .. frame.i - 1 :
            ~linesLess("shifter", perm[j + 1], perm[frame.pivot + 1])
  /\ Sorted =>
       \A k \in 1 .. N - 1 : ~linesLess("shifter", perm[k + 1], perm[k])

\* a sort of four lines or more, two of them equal under linesLess, that
\* moved lines
C1_Witness ==
  /\ pc = "done"
  /\ N >= 4
  /\ perm # IdentityPerm(N)
  /\ \E k \in 1 .. N - 1 : ~linesLess("shifter", perm[k], perm[k + 1])

\* C2: perm starts as the identity, is a bijection onto 1..N in every state
\* of the sort and after it, for every N >= 0, and each step of the sort
\* that changes it changes two or three of its entries.
C2_PermBijection ==
  /\ [](pc \in {"sorting", "output", "done"} =>
          /\ Len(perm) = N
          /\ \A line \in 1..N : Cardinality({k \in 1..N : perm[k] = line}) = 1
          /\ (qs = "idle" /\ stack = <<[left |-> 0, right |-> N]>>) =>
               perm = IdentityPerm(N))
  /\ [][(pc = "sorting" /\ perm' # perm) =>
          /\ Len(perm') = Len(perm)
          /\ Cardinality({k \in 1..Len(perm) : perm'[k] # perm[k]}) \in {2, 3}]_vars

\* the sort has just rotated three entries of a perm of four or more
C2_Witness ==
  /\ pc = "sorting"
  /\ lastOp = "rotate"
  /\ N >= 4

\* C3: the output line of the pair (L, k) has word k of source line L as
\* its word 1.
C3_LeadsWithStartWord ==
  Shifted =>
    \A o \in 1..N :
      WordOf("shifter", o, 1) = WordOf("storage", shifts[o].line, shifts[o].startWord)

\* C4: an output line of the pair (L, k) has the words(L) = n words of its
\* source line; the address translation maps 1..n one-to-one onto 1..n; and
\* each word occurs as often in the rotation as in the source line.
C4_RotationKeepsWords ==
  Shifted =>
    \A o \in 1..N :
      LET L == shifts[o].line
          k == shifts[o].startWord
          n == storage_words(array, L)
      IN /\ holder_words("shifter", o) = n
         /\ \A w \in 1..n : ShiftWord(w, k, n) \in 1..n
         /\ \A v \in 1..n : Cardinality({w \in 1..n : ShiftWord(w, k, n) = v}) = 1
         /\ \A v \in 1..n :
              Cardinality({w \in 1..n : WordOf("shifter", o, w) = WordOf("storage", L, v)})
                = Cardinality({w \in 1..n : WordOf("storage", L, w) = WordOf("storage", L, v)})

\* a line of one word, and a line of three whose last rotation wraps
C4_Witness ==
  /\ Shifted
  /\ \E o \in 1..N : holder_words("shifter", o) = 1
  /\ \E o \in 1..N : holder_words("shifter", o) >= 3 /\ shifts[o].startWord >= 3

\* C5: the shifter has as many lines as the wrapped text has words, and
\* its pairs are the text's (line, word) addresses in document order.
C5_ShiftsEnumerateWords ==
  Shifted =>
    /\ holder_lines("shifter") = SumLen(array)
    /\ \A l \in 1..Len(array) : \A w \in 1..Len(array[l]) :
         \E o \in 1..Len(shifts) : shifts[o] = [line |-> l, startWord |-> w]
    /\ \A o \in 1..Len(shifts) :
         /\ shifts[o].line \in 1..Len(array)
         /\ shifts[o].startWord \in 1..Len(array[shifts[o].line])
    /\ \A o \in 1..Len(shifts) - 1 :
         \/ shifts[o].line < shifts[o + 1].line
         \/ /\ shifts[o].line = shifts[o + 1].line
            /\ shifts[o].startWord < shifts[o + 1].startWord

\* a text of two lines or more, the first two of two words or more
C5_Witness ==
  /\ Shifted
  /\ Len(array) >= 2
  /\ Len(array[1]) >= 2
  /\ Len(array[2]) >= 2

\* all words of line a are the first words of the longer line b
WordPrefix(h, a, b) ==
  /\ holder_words(h, a) < holder_words(h, b)
  /\ \A w \in 1..holder_words(h, a) : WordOf(h, a, w) = WordOf(h, b, w)

\* C6: over the lines of the stored text and over the lines of its shifted
\* view, linesLess is irreflexive, asymmetric and transitive, and a line
\* that is a proper word-prefix of another is the lesser.
C6_LinesLessStrictOrder ==
  Shifted =>
    \A h \in {"storage", "shifter"} :
      \A a \in 1..holder_lines(h) :
        /\ ~linesLess(h, a, a)
        /\ \A b \in 1..holder_lines(h) :
             IF linesLess(h, a, b)
             THEN /\ ~linesLess(h, b, a)
                  /\ \A c \in 1..holder_lines(h) :
                       linesLess(h, b, c) => linesLess(h, a, c)
             ELSE ~WordPrefix(h, a, b)

\* three lines in a chain, the first a word-prefix of the second, and two
\* lines neither of which is less than the other
C6_Witness ==
  /\ Shifted
  /\ \E a, b, c \in 1..holder_lines("shifter") :
       /\ WordPrefix("shifter", a, b)
       /\ linesLess("shifter", a, b)
       /\ linesLess("shifter", b, c)
  /\ \E a, b \in 1..holder_lines("shifter") :
       /\ a # b
       /\ ~linesLess("shifter", a, b)
       /\ ~linesLess("shifter", b, a)

IsUpper(c) == c >= UpperA /\ c <= UpperZ
IsLower(c) == c >= LowerA /\ c <= LowerZ
IsLetter(c) == IsUpper(c) \/ IsLower(c)
\* place of a letter in the order A, a, B, b, ..., Z, z
LetterPos(c) == IF IsUpper(c) THEN 2 * (c - UpperA) + 1 ELSE 2 * (c - LowerA) + 2
\* the rank computed without the 8-bit wrap
WideRank(c) ==
  IF IsUpper(c) THEN (c - UpperA) * 2
  ELSE IF IsLower(c) THEN (c - LowerA) * 2 + 1 ELSE 0

\* C7: a byte that is not a letter has rank 0, which no rank is below;
\* letters rank strictly increasing in the order A, a, B, b, ..., Z, z; and
\* the rank is the one computed without the 8-bit wrap.
C7_CharRank ==
  pc = "ranked" =>
    /\ ~IsLetter(c1) => (r1 = 0 /\ r1 <= r2)
    /\ (IsLetter(c1) /\ IsLetter(c2) /\ LetterPos(c1) < LetterPos(c2)) => r1 < r2
    /\ r1 = WideRank(c1)

\* 'Y' and 'y' ranked
C7_Witness ==
  /\ pc = "ranked"
  /\ c1 = 89 /\ c2 = 121
  /\ r1 = 48 /\ r2 = 49

\* (line, word, char) is the position right after the content of arr
NextPosition(arr, line, word, char) ==
  \/ /\ Len(arr) >= 1
     /\ line = Len(arr)
     /\ Len(arr[line]) >= 1
     /\ word = Len(arr[line])
     /\ char = Len(arr[line][word]) + 1
  \/ /\ Len(arr) >= 1
     /\ line = Len(arr)
     /\ word = Len(arr[line]) + 1
     /\ char = 1
  \/ /\ line = Len(arr) + 1
     /\ word = 1
     /\ char = 1

\* C8: a setWord call succeeds exactly when its triple is the position
\* right after the current content, and every other call fails with one of
\* ERLSBL, ERLSBW, ERLSBC.
C8_OutOfSequenceTagged ==
  [][pc = "store" =>
       IF NextPosition(array, req'.line, req'.word, req'.char)
       THEN panic' = NoPanic
       ELSE panic' \in {ERLSBL, ERLSBW, ERLSBC}]_vars

\* C9: input() reaches end-of-input on every byte sequence, never aborted
\* by an out-of-sequence append.
C9_InputNeverAborts ==
  ~(pc = "aborted" /\ panic \in {ERLSBL, ERLSBW, ERLSBC})

\* every stored line has a word and every stored word a character
NoHoles(arr) ==
  \A l \in 1..Len(arr) :
    /\ Len(arr[l]) >= 1
    /\ \A w \in 1..Len(arr[l]) : Len(arr[l][w]) >= 1

\* new is old with the one character value added at its very end
GrewByOne(old, new, value) ==
  /\ StoreSize(new) = StoreSize(old) + 1
  /\ Len(new) >= Len(old)
  /\ \A l \in 1..Len(old) :
       /\ Len(new[l]) >= Len(old[l])
       /\ \A w \in 1..Len(old[l]) :
            /\ Len(new[l][w]) >= Len(old[l][w])
            /\ \A c \in 1..Len(old[l][w]) : new[l][w][c] = old[l][w][c]
  /\ LET lastLine == new[Len(new)]
         lastWord == lastLine[Len(lastLine)]
     IN lastWord[Len(lastWord)] = value

\* C10: a successful setWord call adds its one character at the end of the
\* last word of the last line, changes nothing stored before, and leaves a
\* store without empty lines or empty words.
C10_AppendOnly ==
  [][(pc = "store" /\ panic' = NoPanic) =>
       /\ NoHoles(array')
       /\ GrewByOne(array, array', req'.value)]_vars

\* a store grown by three calls into two lines, the second of two words
C10_Witness ==
  /\ pc = "store"
  /\ panic = NoPanic
  /\ StoreSize(array) = 3
  /\ Len(array) = 2
  /\ Len(array[2]) = 2

====
